---- MODULE Spec2Model ----
(***************************************************************************)
(* isp-service-checker (src/main.py): a periodic speed probe.  main()      *)
(* loads config.toml, makes sure the CSV log carries a header, then runs   *)
(* measurement cycles separated by an interruptible wait until a signal    *)
(* handler sets _STOP_REQUESTED.                                           *)
(*                                                                         *)
(* Four specifications share the variables:                                *)
(*   Spec        main() from line 98 on, with asynchronous signal delivery *)
(*   FairSpec    Spec plus weak fairness of the main thread's steps        *)
(*   SpecStore   ensure_csv_with_headers / append_result called in any     *)
(*               order on one destination                                  *)
(*   SpecConfig  load_config applied to one config.toml                    *)
(*                                                                         *)
(* Environment faults are nondeterministic choices: the provider call      *)
(* returns or raises, os.path.getsize returns or raises OSError, open /    *)
(* write succeed or raise OSError.  A failed write leaves the file's       *)
(* content as it was (a row is written whole or not at all).  print is     *)
(* taken not to fail.                                                      *)
(***************************************************************************)
EXTENDS Integers, Sequences, FiniteSets, TLC

VARIABLES
    STOP_REQUESTED,     \* the global _STOP_REQUESTED
    pc,                 \* control position of the main thread
    configFile,         \* config.toml as found on disk
    interval_seconds,   \* main()'s local
    csv_path,           \* main()'s local
    file,               \* the destination: [exists, rows]
    started,            \* main()'s local: utcnow() at the cycle's start
    result,             \* main()'s locals dl, ul, ping
    slept,              \* main()'s local
    clock,              \* wall clock, in seconds
    stdout,             \* number of lines printed on standard output
    stderr,             \* number of lines printed on standard error
    exitStatus,         \* -1 while running, else the process's exit status
    raised,             \* name of the exception that left main(), or "none"
    cycles,             \* history: one record per cycle started
    delivered,          \* history: number of signals delivered
    afterStop,          \* history: what happened since the flag became true
    file0,              \* history: the destination as found at startup
    ops                 \* history: calls made by the store / config harness

vars == << STOP_REQUESTED, pc, configFile, interval_seconds, csv_path, file,
           started, result, slept, clock, stdout, stderr, exitStatus, raised,
           cycles, delivered, afterStop, file0, ops >>

\* What the program itself holds (no history variables).
progVars == << STOP_REQUESTED, pc, configFile, interval_seconds, csv_path,
               file, started, result, slept, clock, stdout, stderr,
               exitStatus, raised >>

----------------------------------------------------------------------------
\* Bounds of the model.

MaxCycles == 2

MaxSignals == 2

MaxStoreOps == 4

MaxStrLen == 2

----------------------------------------------------------------------------
\* Python values, as far as load_config meets them.
\* A value is [t, n, s]: its type tag, its number (ints, bools; floats in
\* thousandths) and its characters (strings).

Max(a, b) == IF a >= b THEN a ELSE b

Min(a, b) == IF a <= b THEN a ELSE b

Val(t, n, s) == [t |-> t, n |-> n, s |-> s]

NoVal == Val("absent", 0, << >>)

IntVal(n) == Val("int", n, << >>)

StrVal(s) == Val("str", 0, s)

DefaultInterval == 300

DefaultLogFile ==
    << "i","n","t","e","r","n","e","t","_","m","e","t","r","i","c","s",
       ".","c","s","v" >>

Digits == { "0", "1", "2", "3", "4", "5", "6", "7", "8", "9" }

DigitVal(c) ==
    CASE c = "0" -> 0 [] c = "1" -> 1 [] c = "2" -> 2 [] c = "3" -> 3
      [] c = "4" -> 4 [] c = "5" -> 5 [] c = "6" -> 6 [] c = "7" -> 7
      [] c = "8" -> 8 [] c = "9" -> 9

DigitChar(d) ==
    CASE d = 0 -> "0" [] d = 1 -> "1" [] d = 2 -> "2" [] d = 3 -> "3"
      [] d = 4 -> "4" [] d = 5 -> "5" [] d = 6 -> "6" [] d = 7 -> "7"
      [] d = 8 -> "8" [] d = 9 -> "9"

RECURSIVE LStrip(_)
LStrip(s) == IF s # << >> /\ Head(s) = " " THEN LStrip(Tail(s)) ELSE s

RECURSIVE RStrip(_)
RStrip(s) ==
    IF s # << >> /\ s[Len(s)] = " " THEN RStrip(SubSeq(s, 1, Len(s) - 1))
    ELSE s

Strip(s) == RStrip(LStrip(s))

\* The digits of an int() literal's body: digits, single underscores only
\* between two digits.
ValidBody(b) ==
    /\ b # << >>
    /\ \A i \in 1..Len(b) :
          \/ b[i] \in Digits
          \/ /\ b[i] = "_"
             /\ 1 < i /\ i < Len(b)
             /\ b[i - 1] \in Digits /\ b[i + 1] \in Digits

RECURSIVE BodyValue(_, _)
BodyValue(b, acc) ==
    IF b = << >> THEN acc
    ELSE IF Head(b) = "_" THEN BodyValue(Tail(b), acc)
    ELSE BodyValue(Tail(b), 10 * acc + DigitVal(Head(b)))

\* int(<str>): [ok, v, exc]
PyIntOfStr(s) ==
    LET t    == Strip(s)
        neg  == t # << >> /\ Head(t) = "-"
        sign == t # << >> /\ Head(t) \in { "-", "+" }
        body == IF sign THEN Tail(t) ELSE t
    IN  IF ValidBody(body)
        THEN [ok |-> TRUE,
              v |-> IF neg THEN 0 - BodyValue(body, 0) ELSE BodyValue(body, 0),
              exc |-> "none"]
        ELSE [ok |-> FALSE, v |-> 0, exc |-> "ValueError"]

\* Truncation toward zero of n thousandths.
Trunc1000(n) == IF n >= 0 THEN n \div 1000 ELSE 0 - ((0 - n) \div 1000)

\* int(x) for a TOML value x: [ok, v, exc]
PyInt(x) ==
    CASE x.t = "int"   -> [ok |-> TRUE, v |-> x.n, exc |-> "none"]
      [] x.t = "bool"  -> [ok |-> TRUE, v |-> x.n, exc |-> "none"]
      [] x.t = "float" -> [ok |-> TRUE, v |-> Trunc1000(x.n), exc |-> "none"]
      [] x.t = "inf"   -> [ok |-> FALSE, v |-> 0, exc |-> "OverflowError"]
      [] x.t = "nan"   -> [ok |-> FALSE, v |-> 0, exc |-> "ValueError"]
      [] x.t = "str"   -> PyIntOfStr(x.s)
      [] OTHER         -> [ok |-> FALSE, v |-> 0, exc |-> "TypeError"]

RECURSIVE NatChars(_)
NatChars(n) ==
    IF n < 10 THEN << DigitChar(n) >>
    ELSE Append(NatChars(n \div 10), DigitChar(n % 10))

\* str(x) for a TOML string, integer or boolean x.
PyStr(x) ==
    CASE x.t = "str"  -> x.s
      [] x.t = "int"  -> IF x.n < 0 THEN << "-" >> \o NatChars(0 - x.n)
                         ELSE NatChars(x.n)
      [] x.t = "bool" -> IF x.n = 1 THEN << "T", "r", "u", "e" >>
                         ELSE << "F", "a", "l", "s", "e" >>

----------------------------------------------------------------------------
\* config.toml and load_config.
\* A config file is [state, app, interval, log_file]:
\*   state     "absent" | "unreadable" | "malformed" | "parsed"
\*   app       what data holds under "app": "absent" | "table" | "scalar"
\*   interval  the value of app.interval_seconds, or NoVal
\*   log_file  the value of app.log_file, or NoVal

CfgFile(state, app, interval, log_file) ==
    [state |-> state, app |-> app, interval |-> interval, log_file |-> log_file]

CfgOk(interval, log_file) ==
    [ok |-> TRUE, interval |-> interval, log_file |-> log_file, exc |-> "none"]

CfgRaise(exc) ==
    [ok |-> FALSE, interval |-> 0, log_file |-> << >>, exc |-> exc]

\* app_cfg.get("interval_seconds", 300)
GetInterval(cf) ==
    IF cf.app = "absent" \/ cf.interval = NoVal THEN IntVal(DefaultInterval)
    ELSE cf.interval

\* app_cfg.get("log_file", "internet_metrics.csv")
GetLogFile(cf) ==
    IF cf.app = "absent" \/ cf.log_file = NoVal THEN StrVal(DefaultLogFile)
    ELSE cf.log_file

\* int(app_cfg.get("interval_seconds", 300))
CoerceInterval(x) == PyInt(x)

\* Faulty variant: a file that cannot be read or parsed yields the defaults.
load_config_SwallowsErrors(cf) ==
    IF cf.state \in { "absent", "unreadable", "malformed" }
    THEN CfgOk(DefaultInterval, DefaultLogFile)
    ELSE IF cf.app = "scalar" THEN CfgRaise("AttributeError")
    ELSE LET i == CoerceInterval(GetInterval(cf))
         IN  IF i.ok THEN CfgOk(i.v, PyStr(GetLogFile(cf)))
             ELSE CfgRaise(i.exc)

\* Faulty variant: the file is opened without the os.path.isfile test.
load_config_NoIsfileTest(cf) ==
    IF cf.state \in { "absent", "unreadable" } THEN CfgRaise("OSError")
    ELSE IF cf.state = "malformed" THEN CfgRaise("TOMLDecodeError")
    ELSE IF cf.app = "scalar" THEN CfgRaise("AttributeError")
    ELSE LET i == CoerceInterval(GetInterval(cf))
         IN  IF i.ok THEN CfgOk(i.v, PyStr(GetLogFile(cf)))
             ELSE CfgRaise(i.exc)

load_config(cf) ==
    IF cf.state = "absent" THEN CfgOk(DefaultInterval, DefaultLogFile)
    ELSE IF cf.state = "unreadable" THEN CfgRaise("OSError")
    ELSE IF cf.state = "malformed" THEN CfgRaise("TOMLDecodeError")
    ELSE IF cf.app = "scalar" THEN CfgRaise("AttributeError")
    ELSE LET i == CoerceInterval(GetInterval(cf))
         IN  IF i.ok THEN CfgOk(i.v, PyStr(GetLogFile(cf)))
             ELSE CfgRaise(i.exc)

\* The config files the model draws from.
Chars == { "2", "-", "x", " " }

RECURSIVE StringsUpTo(_)
StringsUpTo(n) ==
    IF n = 0 THEN { << >> }
    ELSE LET shorter == StringsUpTo(n - 1)
         IN  shorter \cup { Append(s, c) : s \in shorter, c \in Chars }

IntervalValues ==
    { NoVal, Val("bool", 1, << >>), Val("inf", 0, << >>),
      Val("array", 0, << >>), Val("float", 2700, << >>),
      Val("float", -1500, << >>) }
    \cup { IntVal(n) : n \in { -1, 0, 1, 2 } }
    \cup { StrVal(s) : s \in StringsUpTo(MaxStrLen) }

LogFileValues == { NoVal, StrVal(<< "a" >>), IntVal(7) }

ConfigFiles ==
    { CfgFile(st, "absent", NoVal, NoVal) :
          st \in { "absent", "unreadable", "malformed", "parsed" } }
    \cup { CfgFile("parsed", "scalar", NoVal, NoVal) }
    \cup { CfgFile("parsed", "table", i, l) :
               i \in IntervalValues, l \in LogFileValues }

\* The config files main() is run on: short intervals, so that whole cycles
\* fit the bounds (load_config on the other files is SpecConfig's subject).
MainConfigFiles ==
    { CfgFile("malformed", "absent", NoVal, NoVal),
      CfgFile("parsed", "table", StrVal(<< "x" >>), NoVal) }
    \cup { CfgFile("parsed", "table", IntVal(n), StrVal(<< "a" >>)) :
               n \in { -1, 0, 2 } }

----------------------------------------------------------------------------
\* The Result Store: the destination file and the two functions on it.
\* A file is [exists, rows]; a row is a sequence of cells; a cell is [s, n].

Cell(s, n) == [s |-> s, n |-> n]

\* writer.writerow(["timestamp_iso", "download_mbps", "upload_mbps", "ping_ms"])
HeaderRow ==
    << Cell("timestamp_iso", 0), Cell("download_mbps", 0),
       Cell("upload_mbps", 0), Cell("ping_ms", 0) >>

\* when.replace(tzinfo=timezone.utc).isoformat(): the instant, marked +00:00
IsoUtc(when) == Cell("+00:00", when)

\* f"{x:.2f}" for x >= 0 given in thousandths: the nearest hundredth.  (The
\* provider results drawn below have no thousandths digit 5, where the
\* rounding would depend on the binary representation.)
Fmt2(x) == Cell(".2f", (x + 5) \div 10)

\* The row append_result writes.
FormatRow(when, dl, ul, ping) ==
    << IsoUtc(when), Fmt2(dl), Fmt2(ul), Fmt2(ping) >>

IsHeader(row) == row = HeaderRow

IsData(row) == Len(row) = 4 /\ row[1].s = "+00:00"

File(exists, rows) == [exists |-> exists, rows |-> rows]

StoreOut(f, exc) == [file |-> f, raised |-> exc]

IoFaults == { "ok", "open_fails", "write_fails" }

\* Faulty variant: the size of an existing file is not looked at.
NeedsHeader_IgnoresSize(f, sizeFails) == ~f.exists

\* Lines 45-51: needs_header, given whether os.path.getsize raises OSError.
NeedsHeader(f, sizeFails) ==
    IF f.exists THEN (IF sizeFails THEN TRUE ELSE Len(f.rows) = 0)
    ELSE TRUE

\* Line 53
WritesHeader(f, sizeFails) == (~f.exists) \/ NeedsHeader(f, sizeFails)

\* Faulty variant: the failure comes after the row has reached the file.
OpenAppendWrite_FailsAfterWrite(f, row, io) ==
    CASE io = "open_fails"  -> StoreOut(f, "OSError")
      [] io = "write_fails" -> StoreOut(File(TRUE, Append(f.rows, row)), "OSError")
      [] io = "ok"          -> StoreOut(File(TRUE, Append(f.rows, row)), "none")

\* Faulty variant: the file is opened with mode "w".
OpenAppendWrite_Truncates(f, row, io) ==
    CASE io = "open_fails"  -> StoreOut(f, "OSError")
      [] io = "write_fails" -> StoreOut(File(TRUE, << >>), "OSError")
      [] io = "ok"          -> StoreOut(File(TRUE, << row >>), "none")

\* with open(csv_path, mode="a", newline="") as f: csv.writer(f).writerow(row)
\* Mode "a" creates the file when it is absent and never truncates it.
OpenAppendWrite(f, row, io) ==
    CASE io = "open_fails"  -> StoreOut(f, "OSError")
      [] io = "write_fails" -> StoreOut(File(TRUE, f.rows), "OSError")
      [] io = "ok"          -> StoreOut(File(TRUE, Append(f.rows, row)), "none")

ensure_csv_with_headers(f, sizeFails, io) ==
    IF WritesHeader(f, sizeFails) THEN OpenAppendWrite(f, HeaderRow, io)
    ELSE StoreOut(f, "none")

append_result(f, when, dl, ul, ping, io) ==
    OpenAppendWrite(f, FormatRow(when, dl, ul, ping), io)

\* os.path.getsize can only fail on a path os.path.exists found.
SizeFaults(f) == IF f.exists THEN BOOLEAN ELSE { FALSE }

\* An earlier run's record, and a line some other tool wrote.
OldRow == FormatRow(0, 50120, 9870, 14300)

ForeignRow == << Cell("foreign", 0) >>

InitFiles ==
    { File(FALSE, << >>), File(TRUE, << >>), File(TRUE, << HeaderRow >>),
      File(TRUE, << HeaderRow, OldRow >>), File(TRUE, << OldRow >>),
      File(TRUE, << ForeignRow >>) }

\* What the Measurement Provider returns: (dl, ul, ping) in thousandths.
ProviderResults == { << 50120, 9870, 14300 >>, << 93807, 0, 7004 >> }

NumHeaderRows(f) == Cardinality({ i \in 1..Len(f.rows) : IsHeader(f.rows[i]) })

NumDataRows(f) == Cardinality({ i \in 1..Len(f.rows) : IsData(f.rows[i]) })

----------------------------------------------------------------------------
\* main(): the run loop.
\* pc: "load_config" (line 98), "ensure_csv" (102), "loop_top" (106),
\*     "measure" (109, the provider call in flight), "append" (110),
\*     "wait_check" (119), "sleeping" (120), "stopped" (124, returned 0),
\*     "crashed" (an exception left main()).

NoCycleYet == << >>

NewCycle(now) ==
    [outcome |-> "running", rows |-> 0, diags |-> 0, waits |-> 0,
     started |-> now, began |-> now]

\* The record of the cycle under way, with field changes applied.
Last(seq) == seq[Len(seq)]

SetLast(seq, rec) == [seq EXCEPT ![Len(seq)] = rec]

\* Faulty variant: the handler flips the flag.
HandlerSets_Toggles(flag) == ~flag

\* Faulty variants: the loop runs while the flag is set; the loop never ends.
LoopCond_Inverted(stop) == stop

LoopCond_Forever(stop) == TRUE

\* Faulty variant: the wait runs one increment too many.
WaitCond_OffByOne(n, interval, stop) == n <= interval /\ ~stop

\* Faulty variant: the whole remainder is slept at once.
SleepArg_NoMin(interval, n) == interval - n

\* Faulty variant: the wait does not look at the flag.
WaitCond_IgnoresStop(n, interval, stop) == n < interval

\* Faulty variants: the handler catches the store's errors only; the provider's only.
Catches_OnlyOSError(exc) == exc = "OSError"

Catches_OnlyProvider(exc) == exc = "ProviderError"

\* Line 16, and the handler's assignment at line 21.
StopInitially == FALSE

HandlerSets(flag) == TRUE

\* Line 106: while not _STOP_REQUESTED
LoopCond(stop) == ~stop

\* Line 119: while slept < interval_seconds and not _STOP_REQUESTED
WaitCond(n, interval, stop) == n < interval /\ ~stop

\* Line 120: min(1, interval_seconds - slept)
SleepArg(interval, n) == Min(1, interval - n)

\* Line 114: except Exception -- every error of the provider and of the
\* store is an Exception.
Catches(exc) == exc \in { "ProviderError", "OSError" }

\* Exit status of the interpreter: main()'s return value, or 1 after an
\* uncaught exception.
ReturnStatus == 0

UncaughtStatus == 1

Crash(exc) ==
    /\ pc' = "crashed"
    /\ raised' = exc
    /\ exitStatus' = UncaughtStatus

\* Lines 98-100
LoadConfig ==
    /\ pc = "load_config"
    /\ LET c == load_config(configFile)
       IN  IF c.ok
           THEN /\ interval_seconds' = c.interval
                /\ csv_path' = c.log_file
                /\ pc' = "ensure_csv"
                /\ UNCHANGED << raised, exitStatus >>
           ELSE /\ Crash(c.exc)
                /\ UNCHANGED << interval_seconds, csv_path >>
    /\ UNCHANGED << STOP_REQUESTED, configFile, file, started, result, slept,
                    clock, stdout, stderr, cycles, delivered, afterStop,
                    file0, ops >>

\* Lines 102-104
EnsureCsv ==
    /\ pc = "ensure_csv"
    /\ \E sizeFails \in SizeFaults(file), io \in IoFaults :
          LET o == ensure_csv_with_headers(file, sizeFails, io)
          IN  /\ file' = o.file
              /\ IF o.raised = "none"
                 THEN /\ stdout' = stdout + 2
                      /\ pc' = "loop_top"
                      /\ UNCHANGED << raised, exitStatus >>
                 ELSE /\ Crash(o.raised)
                      /\ UNCHANGED stdout
    /\ UNCHANGED << STOP_REQUESTED, configFile, interval_seconds, csv_path,
                    started, result, slept, clock, stderr, cycles, delivered,
                    afterStop, file0, ops >>

\* Lines 106-109: the loop condition holds, the cycle starts: the start
\* timestamp is taken and the provider call begins.
LoopEnter ==
    /\ pc = "loop_top"
    /\ LoopCond(STOP_REQUESTED)
    /\ Len(cycles) < MaxCycles
    /\ started' = clock
    /\ cycles' = Append(cycles, NewCycle(clock))
    /\ afterStop' = IF STOP_REQUESTED
                    THEN [afterStop EXCEPT !.calls = @ + 1]
                    ELSE afterStop
    /\ pc' = "measure"
    /\ UNCHANGED << STOP_REQUESTED, configFile, interval_seconds, csv_path,
                    file, result, slept, clock, stdout, stderr, exitStatus,
                    raised, delivered, file0, ops >>

\* Lines 106, 123-124: the loop condition fails, main() returns 0.
LoopExit ==
    /\ pc = "loop_top"
    /\ ~LoopCond(STOP_REQUESTED)
    /\ stdout' = stdout + 1
    /\ exitStatus' = ReturnStatus
    /\ pc' = "stopped"
    /\ UNCHANGED << STOP_REQUESTED, configFile, interval_seconds, csv_path,
                    file, started, result, slept, clock, stderr, raised,
                    cycles, delivered, afterStop, file0, ops >>

\* Lines 114-118: the handler of the try block, then slept = 0.
Except(exc, outcome) ==
    IF Catches(exc)
    THEN /\ stderr' = stderr + 1
         /\ cycles' = SetLast(cycles, [Last(cycles) EXCEPT
                                          !.outcome = outcome,
                                          !.diags = @ + 1])
         /\ slept' = 0
         /\ pc' = "wait_check"
         /\ UNCHANGED << raised, exitStatus >>
    ELSE /\ Crash(exc)
         /\ cycles' = SetLast(cycles, [Last(cycles) EXCEPT
                                          !.outcome = outcome])
         /\ UNCHANGED << stderr, slept >>

\* Line 109: run_speed_test() returns (dl, ul, ping).
MeasureReturn ==
    /\ pc = "measure"
    /\ \E r \in ProviderResults : result' = r
    /\ clock' = clock + 1
    /\ pc' = "append"
    /\ UNCHANGED << STOP_REQUESTED, configFile, interval_seconds, csv_path,
                    file, started, slept, stdout, stderr, exitStatus, raised,
                    cycles, delivered, afterStop, file0, ops >>

\* Line 109: run_speed_test() raises.
MeasureFail ==
    /\ pc = "measure"
    /\ clock' = clock + 1
    /\ Except("ProviderError", "provider_failed")
    /\ UNCHANGED << STOP_REQUESTED, configFile, interval_seconds, csv_path,
                    file, started, result, stdout, delivered, afterStop,
                    file0, ops >>

\* Faulty variant: the row is stamped with the time of the append.
WhenArg_Now(startedAt, now) == now

\* Line 110: the timestamp handed to append_result is the local started,
\* not the clock at the time of the call.
WhenArg(startedAt, now) == startedAt

\* Lines 110-118: append_result, then the success line or the handler.
AppendResult ==
    /\ pc = "append"
    /\ \E io \in IoFaults :
          LET o == append_result(file, WhenArg(started, clock), result[1],
                                 result[2], result[3], io)
          IN  /\ file' = o.file
              /\ IF o.raised = "none"
                 THEN /\ stdout' = stdout + 1
                      /\ cycles' = SetLast(cycles, [Last(cycles) EXCEPT
                                      !.outcome = "ok",
                                      !.rows = Len(o.file.rows) - Len(file.rows)])
                      /\ slept' = 0
                      /\ pc' = "wait_check"
                      /\ UNCHANGED << stderr, raised, exitStatus >>
                 ELSE /\ Except(o.raised, "append_failed")
                      /\ UNCHANGED stdout
    /\ UNCHANGED << STOP_REQUESTED, configFile, interval_seconds, csv_path,
                    started, result, clock, delivered, afterStop, file0, ops >>

\* Line 119 holds: the next sleep is requested.
WaitEnter ==
    /\ pc = "wait_check"
    /\ WaitCond(slept, interval_seconds, STOP_REQUESTED)
    /\ pc' = "sleeping"
    /\ UNCHANGED << STOP_REQUESTED, configFile, interval_seconds, csv_path,
                    file, started, result, slept, clock, stdout, stderr,
                    exitStatus, raised, cycles, delivered, afterStop, file0,
                    ops >>

\* Line 119 fails: back to line 106.
WaitExit ==
    /\ pc = "wait_check"
    /\ ~WaitCond(slept, interval_seconds, STOP_REQUESTED)
    /\ pc' = "loop_top"
    /\ UNCHANGED << STOP_REQUESTED, configFile, interval_seconds, csv_path,
                    file, started, result, slept, clock, stdout, stderr,
                    exitStatus, raised, cycles, delivered, afterStop, file0,
                    ops >>

\* Lines 120-121: time.sleep returns (a signal handled meanwhile does not
\* cut it short), slept += 1.  time.sleep raises ValueError on a negative
\* argument; line 120 is outside the try block.
SleepDone ==
    /\ pc = "sleeping"
    /\ IF SleepArg(interval_seconds, slept) < 0
       THEN /\ Crash("ValueError")
            /\ UNCHANGED << clock, slept, cycles, afterStop >>
       ELSE /\ clock' = clock + SleepArg(interval_seconds, slept)
            /\ slept' = slept + 1
            /\ cycles' = SetLast(cycles, [Last(cycles) EXCEPT !.waits = @ + 1])
            /\ afterStop' = IF STOP_REQUESTED
                            THEN [afterStop EXCEPT !.incs = @ + 1]
                            ELSE afterStop
            /\ pc' = "wait_check"
            /\ UNCHANGED << exitStatus, raised >>
    /\ UNCHANGED << STOP_REQUESTED, configFile, interval_seconds, csv_path,
                    file, started, result, stdout, stderr, delivered, file0,
                    ops >>

MainPcs ==
    { "load_config", "ensure_csv", "loop_top", "measure", "append",
      "wait_check", "sleeping" }

\* Faulty variant: the handler raises in the main thread, as the default
\* SIGINT handler does.
HandleStopSignal_Raises ==
    /\ pc \in MainPcs
    /\ delivered < MaxSignals
    /\ STOP_REQUESTED' = HandlerSets(STOP_REQUESTED)
    /\ delivered' = delivered + 1
    /\ afterStop' = IF afterStop.at = "none"
                    THEN [afterStop EXCEPT !.at = pc]
                    ELSE afterStop
    /\ Crash("KeyboardInterrupt")
    /\ UNCHANGED << configFile, interval_seconds, csv_path, file, started,
                    result, slept, clock, stdout, stderr, cycles, file0, ops >>

\* Lines 19-21: SIGINT or SIGTERM is delivered while main() runs.
HandleStopSignal ==
    /\ pc \in MainPcs
    /\ delivered < MaxSignals
    /\ STOP_REQUESTED' = HandlerSets(STOP_REQUESTED)
    /\ delivered' = delivered + 1
    /\ afterStop' = IF afterStop.at = "none"
                    THEN [afterStop EXCEPT !.at = pc]
                    ELSE afterStop
    /\ UNCHANGED << pc, configFile, interval_seconds, csv_path, file, started,
                    result, slept, clock, stdout, stderr, exitStatus, raised,
                    cycles, file0, ops >>

NoOps == [n |-> 0, ensured |-> 0, appended |-> 0, appendFirst |-> FALSE]

Init ==
    /\ STOP_REQUESTED = StopInitially
    /\ pc = "load_config"
    /\ configFile \in MainConfigFiles
    /\ interval_seconds = 0
    /\ csv_path = << >>
    /\ file \in InitFiles
    /\ file0 = file
    /\ started = 0
    /\ result = << 0, 0, 0 >>
    /\ slept = 0
    /\ clock = 1
    /\ stdout = 0
    /\ stderr = 0
    /\ exitStatus = -1
    /\ raised = "none"
    /\ cycles = NoCycleYet
    /\ delivered = 0
    /\ afterStop = [at |-> "none", incs |-> 0, calls |-> 0]
    /\ ops = NoOps

MainStep ==
    \/ LoadConfig
    \/ EnsureCsv
    \/ LoopEnter
    \/ LoopExit
    \/ MeasureReturn
    \/ MeasureFail
    \/ AppendResult
    \/ WaitEnter
    \/ WaitExit
    \/ SleepDone

Next == MainStep \/ HandleStopSignal

Spec == Init /\ [][Next]_vars

\* The interpreter keeps running the main thread, the provider call returns
\* or raises, and a sleep ends.
FairSpec == Spec /\ WF_vars(MainStep)

----------------------------------------------------------------------------
\* SpecStore: the two store functions called in any order on one
\* destination, each call with any of its fault outcomes.

InitStore ==
    /\ STOP_REQUESTED = StopInitially
    /\ pc = "store"
    /\ configFile = CfgFile("absent", "absent", NoVal, NoVal)
    /\ interval_seconds = 0
    /\ csv_path = << >>
    /\ file \in InitFiles
    /\ file0 = file
    /\ started = 0
    /\ result = << 0, 0, 0 >>
    /\ slept = 0
    /\ clock = 1
    /\ stdout = 0
    /\ stderr = 0
    /\ exitStatus = -1
    /\ raised = "none"
    /\ cycles = NoCycleYet
    /\ delivered = 0
    /\ afterStop = [at |-> "none", incs |-> 0, calls |-> 0]
    /\ ops = NoOps

\* A call of ensure_csv_with_headers(csv_path); raised is its exception.
StoreEnsure ==
    /\ pc = "store"
    /\ ops.n < MaxStoreOps
    /\ \E sizeFails \in SizeFaults(file), io \in IoFaults :
          LET o == ensure_csv_with_headers(file, sizeFails, io)
          IN  /\ file' = o.file
              /\ raised' = o.raised
              /\ ops' = [ops EXCEPT !.n = @ + 1,
                                    !.ensured = IF o.raised = "none"
                                                THEN @ + 1 ELSE @]
    /\ UNCHANGED << STOP_REQUESTED, pc, configFile, interval_seconds,
                    csv_path, started, result, slept, clock, stdout, stderr,
                    exitStatus, cycles, delivered, afterStop, file0 >>

\* A call of append_result(csv_path, when, dl, ul, ping).
StoreAppend ==
    /\ pc = "store"
    /\ ops.n < MaxStoreOps
    /\ \E r \in ProviderResults, io \in IoFaults :
          LET o == append_result(file, clock, r[1], r[2], r[3], io)
          IN  /\ file' = o.file
              /\ raised' = o.raised
              /\ started' = clock
              /\ result' = r
              /\ ops' = [ops EXCEPT !.n = @ + 1,
                                    !.appended = IF o.raised = "none"
                                                 THEN @ + 1 ELSE @,
                                    !.appendFirst = @ \/ ops.ensured = 0]
    /\ clock' = clock + 1
    /\ UNCHANGED << STOP_REQUESTED, pc, configFile, interval_seconds,
                    csv_path, slept, stdout, stderr, exitStatus, cycles,
                    delivered, afterStop, file0 >>

NextStore == StoreEnsure \/ StoreAppend

SpecStore == InitStore /\ [][NextStore]_vars

----------------------------------------------------------------------------
\* SpecConfig: load_config applied once to a config file.

InitConfig ==
    /\ STOP_REQUESTED = StopInitially
    /\ pc = "config"
    /\ configFile \in ConfigFiles
    /\ interval_seconds = 0
    /\ csv_path = << >>
    /\ file = File(FALSE, << >>)
    /\ file0 = file
    /\ started = 0
    /\ result = << 0, 0, 0 >>
    /\ slept = 0
    /\ clock = 1
    /\ stdout = 0
    /\ stderr = 0
    /\ exitStatus = -1
    /\ raised = "none"
    /\ cycles = NoCycleYet
    /\ delivered = 0
    /\ afterStop = [at |-> "none", incs |-> 0, calls |-> 0]
    /\ ops = NoOps

\* cfg = load_config(path): the returned dict, or the exception raised.
ConfigLoad ==
    /\ pc = "config"
    /\ LET c == load_config(configFile)
       IN  /\ interval_seconds' = c.interval
           /\ csv_path' = c.log_file
           /\ raised' = c.exc
    /\ pc' = "config_done"
    /\ ops' = [ops EXCEPT !.n = @ + 1]
    /\ UNCHANGED << STOP_REQUESTED, configFile, file, started, result, slept,
                    clock, stdout, stderr, exitStatus, cycles, delivered,
                    afterStop, file0 >>

NextConfig == ConfigLoad

SpecConfig == InitConfig /\ [][NextConfig]_vars

----------------------------------------------------------------------------
\* Properties.

LoopPcs == { "loop_top", "measure", "append", "wait_check", "sleeping" }

WaitPcs == { "wait_check", "sleeping" }

\* ensure_csv_with_headers has returned.
EnsureDone == pc \in LoopPcs \cup { "stopped" }

\* The normal wait: interval_seconds increments (none for an interval <= 0).
NormalWait == Max(interval_seconds, 0)

\* The rows of the log that carry cycle n's start timestamp.
RowsOfCycle(n) ==
    { i \in 1..Len(file.rows) :
          IsData(file.rows[i]) /\ file.rows[i][1] = IsoUtc(cycles[n].started) }

CyclesWith(outcome) ==
    { n \in 1..Len(cycles) : cycles[n].outcome = outcome }

\* The loop is left only by the flag, and an exception leaves main() only
\* during startup.
StaysRunning ==
    /\ pc = "stopped" => STOP_REQUESTED
    /\ pc = "crashed" => cycles = NoCycleYet /\ stdout = 0

\* C1: a cycle whose provider call failed appended no record, emitted one
\* diagnostic, did not end the loop, and is followed by the full normal wait
\* before the loop, the flag still false, comes to start the next cycle.
C1_CycleIsolation ==
    \A n \in CyclesWith("provider_failed") :
        /\ RowsOfCycle(n) = { }
        /\ cycles[n].rows = 0
        /\ cycles[n].diags = 1
        /\ StaysRunning
        /\ n < Len(cycles) => cycles[n].waits = NormalWait
        /\ (n = Len(cycles) /\ pc = "loop_top" /\ ~STOP_REQUESTED)
              => cycles[n].waits = NormalWait

C1_Witness ==
    /\ interval_seconds = 2
    /\ ~STOP_REQUESTED
    /\ Len(cycles) = 2
    /\ cycles[1].outcome = "provider_failed"
    /\ cycles[1].waits = 2
    /\ stderr = 1
    /\ pc = "measure"

\* C2: when the flag becomes true in the wait phase, at most one further
\* wait increment completes, no provider call is started, and the loop
\* reaches STOPPED.
C2_ShutdownLatency ==
    /\ [](afterStop.at \in WaitPcs
            => afterStop.incs <= 1 /\ afterStop.calls = 0)
    /\ (afterStop.at \in WaitPcs) ~> (pc = "stopped")

C2_Witness ==
    /\ interval_seconds = 2
    /\ afterStop.at = "sleeping"
    /\ afterStop.incs = 1
    /\ Last(cycles).waits = 1
    /\ pc = "stopped"

\* The first line is the header and every sample line comes after it.
HeaderLeads ==
    /\ file.exists
    /\ file.rows # << >>
    /\ IsHeader(file.rows[1])
    /\ \A i \in 1..Len(file.rows) : IsData(file.rows[i]) => i > 1

\* C3 as stated: after initialization the header leads the log, whatever
\* the destination held at startup.
C3_HeaderLeads_AnyDestination == EnsureDone => HeaderLeads

\* The destination is absent, empty, or already led by the header.
LedByHeaderOrEmpty(f) ==
    (~f.exists) \/ f.rows = << >> \/ IsHeader(f.rows[1])

\* C3, amended: after initialization the header leads the log when the
\* destination was absent, empty, or already led by the header at startup.
C3_HeaderLeads ==
    (EnsureDone /\ LedByHeaderOrEmpty(file0)) => HeaderLeads

C3_Witness ==
    /\ file0 = File(TRUE, << >>)
    /\ pc = "wait_check"
    /\ Len(file.rows) = 2
    /\ IsHeader(file.rows[1])
    /\ IsData(file.rows[2])

\* C4: each cycle appends no or one record; the records added since
\* startup are as many as the cycles whose measurement and append both
\* succeeded, one per such cycle, carrying what the provider returned.
C4_RecordsMatchCycles ==
    /\ \A n \in 1..Len(cycles) :
          /\ cycles[n].rows \in { 0, 1 }
          /\ Cardinality(RowsOfCycle(n))
                = (IF cycles[n].outcome = "ok" THEN 1 ELSE 0)
    /\ NumDataRows(file) - NumDataRows(file0)
          = Cardinality(CyclesWith("ok"))
    /\ (cycles # NoCycleYet /\ Last(cycles).outcome = "ok")
          => Last(file.rows)
                = FormatRow(started, result[1], result[2], result[3])

C4_Witness ==
    /\ Len(cycles) = 2
    /\ cycles[1].outcome = "ok"
    /\ cycles[2].outcome = "provider_failed"
    /\ NumDataRows(file) = NumDataRows(file0) + 1
    /\ stderr = 1

\* C5: the loop has terminated only with the flag true, and no failure of
\* a measurement or of an append takes it out of the loop.
C5_StopsOnlyOnFlag == StaysRunning

C5_Witness ==
    /\ pc = "stopped"
    /\ STOP_REQUESTED
    /\ CyclesWith("provider_failed") # { }
    /\ CyclesWith("append_failed") # { }

\* C6: a cycle whose append failed emitted one diagnostic, did not end the
\* loop, and is followed by the full normal wait before the loop, the flag
\* still false, comes to start the next cycle.
C6_AppendIsolation ==
    \A n \in CyclesWith("append_failed") :
        /\ cycles[n].diags = 1
        /\ pc # "crashed"
        /\ raised = "none"
        /\ exitStatus \in { -1, ReturnStatus }
        /\ n < Len(cycles) => cycles[n].waits = NormalWait
        /\ (n = Len(cycles) /\ pc = "loop_top" /\ ~STOP_REQUESTED)
              => cycles[n].waits = NormalWait

C6_Witness ==
    /\ interval_seconds = 2
    /\ ~STOP_REQUESTED
    /\ Len(cycles) = 2
    /\ cycles[1].outcome = "append_failed"
    /\ cycles[1].waits = 2
    /\ pc = "measure"

\* C7: the flag is false until a signal is delivered and true from then
\* on; it never returns to false, and a signal delivered when it is already
\* true changes nothing the program holds.
C7_StopFlagMonotone ==
    /\ [](STOP_REQUESTED <=> delivered > 0)
    /\ [][ /\ STOP_REQUESTED => STOP_REQUESTED'
           /\ (STOP_REQUESTED /\ delivered' # delivered)
                 => UNCHANGED progVars ]_vars

C7_Witness ==
    /\ delivered = 2
    /\ STOP_REQUESTED
    /\ pc \in MainPcs

\* C8: once the flag is true in the loop, the loop reaches STOPPED and
\* main() returns 0; a non-zero exit comes from startup only.
C8_GracefulShutdown ==
    /\ (STOP_REQUESTED /\ pc \in LoopPcs)
          ~> (pc = "stopped" /\ exitStatus = 0)
    /\ [](exitStatus \notin { -1, 0 } => cycles = NoCycleYet /\ stdout = 0)

C8_Witness ==
    /\ afterStop.at = "measure"
    /\ pc = "stopped"
    /\ exitStatus = 0

\* C9: whatever the calls of ensure_csv_with_headers and append_result
\* (the first completed one an initialization), a destination that started
\* absent or empty got the header written exactly once, and a destination
\* that started non-empty got no header written.
C9_HeaderIdempotence ==
    LET written == NumHeaderRows(file) - NumHeaderRows(file0)
    IN  /\ (file0.rows = << >> /\ ops.ensured >= 1 /\ ~ops.appendFirst)
              => written = 1
        /\ file0.rows # << >> => written = 0

\* C10: load_config on an existing, parseable file (with a table or nothing
\* under "app") returns without raising, with interval 300 when the key is
\* absent or its value is not integer-coercible, and with the default log
\* file when that key is absent.
C10_ConfigDefaults ==
    (pc = "config_done" /\ configFile.state = "parsed"
       /\ configFile.app # "scalar")
    => /\ raised = "none"
       /\ (configFile.app = "absent" \/ configFile.interval = NoVal
             \/ ~PyInt(configFile.interval).ok)
             => interval_seconds = DefaultInterval
       /\ (configFile.app = "absent" \/ configFile.log_file = NoVal)
             => csv_path = DefaultLogFile

----------------------------------------------------------------------------
\* Properties of startup, the in-flight call, timing and the log.

StartupPcs == { "load_config", "ensure_csv" }

\* C11: an exception leaves main() only with a non-zero exit status, before
\* any cycle: no provider call was made and no data record was added; and
\* a config file that cannot be parsed always ends main() that way.
C11_FailFastStartup ==
    /\ (configFile.state = "malformed" /\ pc # "load_config")
          => pc = "crashed" /\ raised = "TOMLDecodeError"
    /\ raised # "none" <=> pc = "crashed"
    /\ pc = "crashed"
          => /\ exitStatus \notin { -1, 0 }
             /\ cycles = NoCycleYet
             /\ stdout = 0
             /\ NumDataRows(file) = NumDataRows(file0)

C11_Witness ==
    /\ pc = "crashed"
    /\ raised = "OSError"
    /\ exitStatus = 1
    /\ configFile.state = "parsed"

\* C12: load_config on a path that is no existing file returns interval
\* 300 and log destination "internet_metrics.csv" and raises nothing.
C12_DefaultConfig ==
    (pc = "config_done" /\ configFile.state = "absent")
    => /\ raised = "none"
       /\ interval_seconds = 300
       /\ csv_path = << "i","n","t","e","r","n","e","t","_","m","e","t",
                        "r","i","c","s",".","c","s","v" >>

C12_Witness ==
    /\ pc = "config_done"
    /\ configFile.state = "absent"
    /\ interval_seconds = 300
    /\ Len(csv_path) = 20

\* C13: a stop request that arrives during the provider call does not cut
\* the cycle short: the call returns or raises, a returned result goes to
\* append_result and its row is in the log unless the append itself fails;
\* after that no wait increment is made, no call is started, and the loop
\* reaches STOPPED.
C13_InFlightCallFinishes ==
    /\ [](afterStop.at = "measure"
            => /\ afterStop.incs = 0
               /\ afterStop.calls = 0
               /\ Last(cycles).waits = 0
               /\ pc \in { "measure", "append", "wait_check", "loop_top",
                           "stopped" }
               /\ pc \in { "wait_check", "loop_top", "stopped" }
                     => Last(cycles).outcome # "running"
               /\ Last(cycles).outcome = "ok"
                     => Cardinality(RowsOfCycle(Len(cycles))) = 1)
    /\ [][ (pc = "measure" /\ pc' # "measure")
              => pc' \in { "append", "wait_check" } ]_vars
    /\ (afterStop.at = "measure") ~> (pc = "stopped")

C13_Witness ==
    /\ afterStop.at = "measure"
    /\ pc = "stopped"
    /\ Last(cycles).outcome = "ok"
    /\ Cardinality(RowsOfCycle(Len(cycles))) = 1
    /\ Last(cycles).waits = 0

\* A cycle that was followed by another one, or is about to be.
Followed(n) ==
    \/ n < Len(cycles)
    \/ n = Len(cycles) /\ pc = "loop_top" /\ ~STOP_REQUESTED

\* C14 as stated: between two consecutive provider calls the loop makes
\* exactly interval_seconds wait increments.
C14_ExactlyIntervalWaits ==
    \A n \in 1..Len(cycles) : Followed(n) => cycles[n].waits = interval_seconds

\* C14, amended: between two consecutive provider calls the loop makes
\* exactly max(interval_seconds, 0) wait increments, whatever the outcome
\* of the earlier cycle.
C14_TimingIndependent ==
    \A n \in 1..Len(cycles) :
        Followed(n)
        => /\ cycles[n].waits = NormalWait
           /\ cycles[n].outcome \in { "ok", "provider_failed", "append_failed" }

C14_Witness ==
    /\ interval_seconds = 2
    /\ Len(cycles) = 2
    /\ cycles[1].outcome = "ok"
    /\ cycles[1].waits = 2
    /\ cycles[2].outcome = "provider_failed"
    /\ cycles[2].waits = 2
    /\ pc = "loop_top"
    /\ ~STOP_REQUESTED

FailedOutcomes == { "provider_failed", "append_failed" }

IsPrefix(s, t) == Len(s) <= Len(t) /\ SubSeq(t, 1, Len(s)) = s

\* C16: in every step the log's content before is a prefix of its content
\* after, and an existing log stays in existence.
C16_AppendOnly ==
    [][ /\ IsPrefix(file.rows, file'.rows)
        /\ file.exists => file'.exists ]_vars

C16_Witness ==
    /\ file0 = File(TRUE, << HeaderRow, OldRow >>)
    /\ Len(file.rows) = 4
    /\ SubSeq(file.rows, 1, 2) = file0.rows
    /\ delivered = 1
    /\ pc = "stopped"

IsOk(c) == c.outcome = "ok"

\* The data rows added since startup, and the cycles that succeeded, in order.
AddedDataRows ==
    SelectSeq(SubSeq(file.rows, Len(file0.rows) + 1, Len(file.rows)), IsData)

OkCycles == SelectSeq(cycles, IsOk)

\* C17: the k-th record added carries the start timestamp of the k-th
\* successful cycle, which is not later than the instant its provider call
\* began and earlier than the instant the call ended.
C17_TimestampIsCycleStart ==
    /\ Len(AddedDataRows) = Len(OkCycles)
    /\ \A k \in 1..Len(OkCycles) :
          /\ AddedDataRows[k][1] = IsoUtc(OkCycles[k].started)
          /\ AddedDataRows[k][1].n <= OkCycles[k].began
    /\ pc = "append" => started < clock

C17_Witness ==
    /\ Len(OkCycles) = 2
    /\ Len(AddedDataRows) = 2
    /\ AddedDataRows[2][1].n = cycles[2].began
    /\ AddedDataRows[2][1].n < clock

\* C18: with the flag set during startup the loop makes no provider call
\* and no wait increment, and from STOPPED no step is taken.
C18_StoppedIsTerminal ==
    /\ [](afterStop.at \in StartupPcs
            => /\ cycles = NoCycleYet
               /\ afterStop.incs = 0
               /\ afterStop.calls = 0
               /\ pc \notin { "measure", "append", "wait_check", "sleeping" })
    /\ [][ pc = "stopped" => UNCHANGED vars ]_vars

C18_Witness ==
    /\ afterStop.at = "ensure_csv"
    /\ pc = "stopped"
    /\ cycles = NoCycleYet
    /\ NumDataRows(file) = NumDataRows(file0)

\* C19: a signal delivery sets the flag and leaves the log, the
\* configuration, the wait counter, the control position and every other
\* local of main() as they were.
C19_HandlerFrame ==
    [][ delivered' # delivered
          => /\ STOP_REQUESTED'
             /\ UNCHANGED << pc, configFile, interval_seconds, csv_path, file,
                             started, result, slept, clock, stdout, stderr,
                             exitStatus, raised >> ]_vars

C19_Witness ==
    /\ afterStop.at = "append"
    /\ pc = "append"
    /\ STOP_REQUESTED
    /\ delivered = 1

\* C20: the wait counter stays within 0..max(interval_seconds, 0); a sleep
\* that is requested lasts more than 0 and at most 1 second; with
\* interval_seconds <= 0 no sleep is requested, the wait never raises, and
\* the next cycle starts as soon as the call of the previous one has ended.
C20_WaitCounterAndSleep ==
    /\ slept \in 0..NormalWait
    /\ pc = "sleeping"
          => /\ SleepArg(interval_seconds, slept) > 0
             /\ SleepArg(interval_seconds, slept) <= 1
    /\ raised # "ValueError" \/ pc \in StartupPcs \/ cycles = NoCycleYet
    /\ (EnsureDone /\ interval_seconds <= 0)
          => /\ pc # "sleeping"
             /\ \A n \in 1..Len(cycles) : cycles[n].waits = 0
             /\ \A n \in 1..(Len(cycles) - 1) :
                   cycles[n + 1].started = cycles[n].started + 1

C20_Witness ==
    /\ interval_seconds = -1
    /\ Len(cycles) = 2
    /\ cycles[1].waits = 0
    /\ cycles[2].started = cycles[1].started + 1
    /\ pc = "wait_check"

====
